---------------------------- MODULE Spec2Model ----------------------------
(***************************************************************************)
(* Model of vmaftools/cli.py: the validation, filtering, scale planning    *)
(* and rendering pipeline driven by main().                                *)
(*                                                                         *)
(* Numbers.  Metric samples are floating-point in the program.  They are   *)
(* modelled in fixed point, in tenths: 30.2 is 302, 100.0 is 1000.         *)
(* Percentiles and axis limits are kept in thousandths, which is exact for *)
(* the 1st percentile of a series in tenths of at most 101 samples.        *)
(* A frame's metric bag (a Python dict) is a function whose DOMAIN is the  *)
(* set of keys present.  A file is the sequence json_data['frames'].       *)
(***************************************************************************)
EXTENDS Integers, Sequences, FiniteSets, TLC

VARIABLES
    args_metrics,     \* args.metrics
    args_vmaf_file,   \* args.vmaf_file: the files' contents, in order
    pc,               \* position of main(): read, validate, extract, plot, exit0, exit1, raised
    mi,               \* index of the metric of the outer loop
    fi,               \* index of the file of the inner loop
    jsn,              \* the frames of the file read last
    to_plot,          \* main's to_plot
    vmaf_file_names,  \* main's vmaf_file_names (file indexes)
    verdict,          \* outcome of the last validate_metrics call
    figure,           \* matplotlib's current figure
    saved,            \* the figures written to args.output, oldest first
    filtered,         \* history: every application of plot_metric's filter
    summarized,       \* history: every series statistics were computed over
    log,              \* history: <<stage, metric index, file index, info>>
    status            \* process exit status, -1 while running

vars == <<args_metrics, args_vmaf_file, pc, mi, fi, jsn, to_plot, vmaf_file_names,
          verdict, figure, saved, filtered, summarized, log, status>>

---------------------------------------------------------------------------
(* Bounds of the explored inputs *)

MaxHead == 12

MaxTail == 3

MaxFiles == 2

MaxMetrics == 2

---------------------------------------------------------------------------
(* Numbers *)

\* n whole units in tenths
Fix(n) == n * 10

\* 1.7976931348623157e+308: any value above every finite sample stands for it
MAX_DOUBLE == 10000000

INF == MAX_DOUBLE + 1

\* Python's None, as returned by dict.get for an absent key
None == 0 - (MAX_DOUBLE + 2)

Max2(a, b) == IF a >= b THEN a ELSE b

Min2(a, b) == IF a <= b THEN a ELSE b

Range(s) == {s[i] : i \in 1..Len(s)}

RECURSIVE SumSeq(_)
SumSeq(s) == IF s = <<>> THEN 0 ELSE Head(s) + SumSeq(Tail(s))

MaxSeq(s) == CHOOSE x \in Range(s) : \A y \in Range(s) : y <= x

MinSeq(s) == CHOOSE x \in Range(s) : \A y \in Range(s) : x <= y

\* int(x) of a value in tenths: truncation toward zero, in whole units
Trunc(x) == IF x >= 0 THEN x \div 10 ELSE 0 - ((0 - x) \div 10)

\* int(p) of a value in thousandths, in whole units
Trunc1000(p) == IF p >= 0 THEN p \div 1000 ELSE 0 - ((0 - p) \div 1000)

\* np.percentile(s, 1), linear interpolation, of samples in tenths; in thousandths
Percentile1(s) ==
    LET n      == Len(s)
        sorted == SortSeq(s, LAMBDA a, b : a < b)
        lo     == (n - 1) \div 100
        frac   == (n - 1) % 100
    IN  IF lo + 2 > n THEN 100 * sorted[lo + 1]
        ELSE 100 * sorted[lo + 1] + frac * (sorted[lo + 2] - sorted[lo + 1])

---------------------------------------------------------------------------
(* validate_metrics *)

RECURSIVE XpsnrLoop(_, _, _)
XpsnrLoop(frames, i, acc) ==
    IF i > Len(frames) \/ acc.raised THEN acc
    ELSE LET metrics == frames[i]
             keyError == \/ "xpsnr" \notin DOMAIN metrics
                         \/ "xpsnr_u" \notin DOMAIN metrics
                         \/ (metrics["xpsnr_u"] = 0 /\ "xpsnr_v" \notin DOMAIN metrics)
         IN  IF keyError THEN [acc EXCEPT !.raised = TRUE]
             ELSE LET invalid == metrics["xpsnr"] = MAX_DOUBLE \/ metrics["xpsnr"] <= 0
                      zero_uv == metrics["xpsnr_u"] = 0 /\ metrics["xpsnr_v"] = 0
                  IN  XpsnrLoop(frames, i + 1,
                        [xpsnr_scores  |-> IF invalid THEN acc.xpsnr_scores
                                           ELSE Append(acc.xpsnr_scores, metrics["xpsnr"]),
                         invalid_count |-> acc.invalid_count + (IF invalid THEN 1 ELSE 0),
                         zero_uv_count |-> acc.zero_uv_count + (IF zero_uv THEN 1 ELSE 0),
                         raised        |-> FALSE])

\* xpsnr_validation with the 10% threshold made inclusive
xpsnr_validation_ge(frames) ==
    LET frame_count == Len(frames)
        r == XpsnrLoop(frames, 1, [xpsnr_scores |-> <<>>, invalid_count |-> 0,
                                   zero_uv_count |-> 0, raised |-> FALSE])
    IN  IF r.raised THEN "KeyError"
        ELSE IF r.invalid_count * 10 >= frame_count THEN "xpsnr_sentinel_overflow"
        ELSE IF r.zero_uv_count = frame_count THEN "xpsnr_chroma_zero"
        ELSE IF /\ r.xpsnr_scores # <<>>
                /\ \/ SumSeq(r.xpsnr_scores) < Fix(20) * Len(r.xpsnr_scores)
                   \/ SumSeq(r.xpsnr_scores) > Fix(60) * Len(r.xpsnr_scores)
             THEN "xpsnr_out_of_range"
        ELSE "accepted"

xpsnr_validation(frames) ==
    LET frame_count == Len(frames)
        r == XpsnrLoop(frames, 1, [xpsnr_scores |-> <<>>, invalid_count |-> 0,
                                   zero_uv_count |-> 0, raised |-> FALSE])
    IN  IF r.raised THEN "KeyError"
        ELSE IF r.invalid_count * 10 > frame_count THEN "xpsnr_sentinel_overflow"
        ELSE IF r.zero_uv_count = frame_count THEN "xpsnr_chroma_zero"
        ELSE IF /\ r.xpsnr_scores # <<>>
                /\ \/ SumSeq(r.xpsnr_scores) < Fix(20) * Len(r.xpsnr_scores)
                   \/ SumSeq(r.xpsnr_scores) > Fix(60) * Len(r.xpsnr_scores)
             THEN "xpsnr_out_of_range"
        ELSE "accepted"

\* validate_metrics with the two VMAF plausibility tests joined by "and"
validate_metrics_and(frames) ==
    LET frame_count == Len(frames)
        vmaf_scores == [i \in 1..frame_count |->
                          IF "vmaf" \in DOMAIN frames[i] THEN frames[i]["vmaf"] ELSE None]
    IN  IF vmaf_scores = <<>> \/ None \in Range(vmaf_scores) THEN "missing_vmaf"
        ELSE IF /\ SumSeq(vmaf_scores) < Fix(10) * Len(vmaf_scores)
                /\ MaxSeq(vmaf_scores) < Fix(20)
             THEN "suspicious_vmaf"
        ELSE IF "xpsnr" \in DOMAIN frames[1] THEN xpsnr_validation(frames)
        ELSE "accepted"

validate_metrics(frames) ==
    LET frame_count == Len(frames)
        vmaf_scores == [i \in 1..frame_count |->
                          IF "vmaf" \in DOMAIN frames[i] THEN frames[i]["vmaf"] ELSE None]
    IN  IF vmaf_scores = <<>> \/ None \in Range(vmaf_scores) THEN "missing_vmaf"
        ELSE IF \/ SumSeq(vmaf_scores) < Fix(10) * Len(vmaf_scores)
                \/ MaxSeq(vmaf_scores) < Fix(20)
             THEN "suspicious_vmaf"
        ELSE IF "xpsnr" \in DOMAIN frames[1] THEN xpsnr_validation(frames)
        ELSE "accepted"

---------------------------------------------------------------------------
(* plot_metric *)

Valid(s) == s # MAX_DOUBLE /\ s # INF /\ s > 0 /\ s < Fix(100)

filter_scores(scores) == SelectSeq(scores, Valid)

xpsnr_min_val(scores) == Max2(20, Trunc(MinSeq(scores) - Fix(1)))

\* xpsnr_max_val rounding the maximum up instead of truncating
xpsnr_max_val_ceil(scores) == Min2(60, ((MaxSeq(scores) + 9) \div 10) + 1)

xpsnr_max_val(scores) == Min2(60, Trunc(MaxSeq(scores) + Fix(1)))

xpsnr_step(scores) ==
    IF xpsnr_max_val(scores) - xpsnr_min_val(scores) > 20 THEN 5 ELSE 2

\* plt.ylim of plot_metric, in thousandths
single_ylim(scores, metric) ==
    LET perc_1 == Percentile1(scores)
    IN  IF metric = "VMAF" THEN <<Trunc1000(perc_1) * 1000, 100 * 1000>>
        ELSE IF metric = "SSIM" THEN <<perc_1, 1000>>
        ELSE IF metric = "XPSNR"
             THEN <<xpsnr_min_val(scores) * 1000, xpsnr_max_val(scores) * 1000>>
        ELSE <<Trunc1000(perc_1) * 1000, MaxSeq(scores) * 100>>

single_step(scores, metric) == IF metric = "XPSNR" THEN xpsnr_step(scores) ELSE 5

---------------------------------------------------------------------------
(* plot_multi_metrics *)

\* statistics.harmonic_mean raises StatisticsError on a negative sample
HarmonicMeanRaises(vmaf) == \E i \in 1..Len(vmaf) : vmaf[i] < 0

\* number of leading series the loop completes
RECURSIVE MultiDone(_, _)
MultiDone(scores, k) ==
    IF k > Len(scores) \/ HarmonicMeanRaises(scores[k]) THEN k - 1
    ELSE MultiDone(scores, k + 1)

RECURSIVE MultiYmin(_, _, _)
MultiYmin(scores, k, ymin) ==
    IF k > Len(scores) THEN ymin
    ELSE LET perc_1 == Percentile1(scores[k])
         IN  MultiYmin(scores, k + 1, IF ymin > perc_1 THEN perc_1 ELSE ymin)

multi_ylim(scores) ==
    LET ymin   == MultiYmin(scores, 1, 100 * 1000)
        capped == IF ymin > 90 * 1000 THEN 90 * 1000 ELSE ymin
    IN  <<Trunc1000(capped) * 1000, 100 * 1000>>

---------------------------------------------------------------------------
(* Inputs *)

EmptyMetrics == [k \in {} |-> 0]

RECURSIVE Rep(_, _)
Rep(a, n) == IF n = 0 THEN <<>> ELSE <<a>> \o Rep(a, n - 1)

XpsnrFull(x, uv) == [xpsnr |-> x, xpsnr_u |-> uv, xpsnr_v |-> uv]

XpsnrValues == {MAX_DOUBLE, 0, 50, 302, 589, 1500}

\* frames of the single-file runs: the VMAF rules crossed with a little XPSNR,
\* and the XPSNR rules under an acceptable VMAF
GenFrames ==
    {v @@ x : v \in {EmptyMetrics, [vmaf |-> 0], [vmaf |-> 150], [vmaf |-> 950]},
              x \in {EmptyMetrics, XpsnrFull(302, 300), XpsnrFull(MAX_DOUBLE, 300)}}
    \cup {[vmaf |-> 950] @@ XpsnrFull(x, 300) : x \in XpsnrValues}
    \cup {[vmaf |-> 950] @@ XpsnrFull(302, 0),
          [vmaf |-> 950, xpsnr |-> 302],
          [vmaf |-> 950, xpsnr |-> 302, xpsnr_u |-> 300]}

GenFiles ==
    {Rep(a, i) \o Rep(b, j) : a \in GenFrames, b \in GenFrames,
                              i \in 0..MaxHead, j \in 0..MaxTail}

FrameFull == [vmaf |-> 950, psnr |-> 400, ssim |-> 9] @@ XpsnrFull(302, 300)

FrameEdge == [vmaf |-> 1000, psnr |-> MAX_DOUBLE, ssim |-> 0] @@ XpsnrFull(589, 300)

\* files of the multi-file, multi-metric runs
SmallFiles ==
    { <<FrameFull>>,
      <<FrameFull, FrameEdge>>,
      <<[vmaf |-> 950]>>,
      <<[vmaf |-> 0, psnr |-> 400, ssim |-> 9]>>,
      <<[vmaf |-> 950, psnr |-> 0 - 10, ssim |-> 9]>> }

MetricChoices == {"VMAF", "PSNR", "SSIM", "XPSNR"}

SeqsUpTo(S, n) == UNION {[1..k -> S] : k \in 1..n}

EmptyFigure == [lines |-> <<>>, ylim |-> <<0, 1000>>, step |-> 0]

---------------------------------------------------------------------------
(* main *)

\* the state main() starts its loops in
Start ==
    /\ pc = "read"
    /\ mi = 1
    /\ fi = 1
    /\ jsn = <<>>
    /\ to_plot = <<>>
    /\ vmaf_file_names = <<>>
    /\ verdict = "none"
    /\ figure = EmptyFigure
    /\ saved = <<>>
    /\ filtered = <<>>
    /\ summarized = <<>>
    /\ log = <<>>
    /\ status = 0 - 1

\* one generated file plotted as XPSNR, or several small files and metrics
Init ==
    /\ \/ /\ args_vmaf_file \in {<<f>> : f \in GenFiles}
          /\ args_metrics = <<"XPSNR">>
       \/ /\ args_vmaf_file \in SeqsUpTo(SmallFiles, MaxFiles)
          /\ args_metrics \in SeqsUpTo(MetricChoices, MaxMetrics)
    /\ Start

\* several small files and metrics
InitRuns ==
    /\ args_vmaf_file \in SeqsUpTo(SmallFiles, MaxFiles)
    /\ args_metrics \in SeqsUpTo(MetricChoices, MaxMetrics)
    /\ Start

metric == args_metrics[mi]

metric_key ==
    IF metric = "XPSNR" THEN "xpsnr"
    ELSE IF metric = "VMAF" THEN "vmaf"
    ELSE IF metric = "PSNR" THEN "psnr"
    ELSE "ssim"

\* jsn = read_json(f)
ReadJson ==
    /\ pc = "read"
    /\ jsn' = args_vmaf_file[fi]
    /\ log' = Append(log, <<"Read", mi, fi, "">>)
    /\ pc' = "validate"
    /\ UNCHANGED <<args_metrics, args_vmaf_file, mi, fi, to_plot, vmaf_file_names,
                   verdict, figure, saved, filtered, summarized, status>>

\* Validate without the sys.exit(1): a rejected file is processed like any other
Validate_NoExit ==
    /\ pc = "validate"
    /\ LET v == validate_metrics(jsn)
       IN  /\ verdict' = v
           /\ log' = Append(log, <<"Validated", mi, fi, v>>)
           /\ pc' = IF v = "KeyError" THEN "raised" ELSE "extract"
           /\ status' = IF v = "KeyError" THEN 1 ELSE status
    /\ UNCHANGED <<args_metrics, args_vmaf_file, mi, fi, jsn, to_plot, vmaf_file_names,
                   figure, saved, filtered, summarized>>

\* if not validate_metrics(jsn): sys.exit(1)
Validate ==
    /\ pc = "validate"
    /\ LET v == validate_metrics(jsn)
       IN  /\ verdict' = v
           /\ log' = Append(log, <<"Validated", mi, fi, v>>)
           /\ pc' = IF v = "accepted" THEN "extract"
                    ELSE IF v = "KeyError" THEN "raised" ELSE "exit1"
           /\ status' = IF v = "accepted" THEN status ELSE 1
    /\ UNCHANGED <<args_metrics, args_vmaf_file, mi, fi, jsn, to_plot, vmaf_file_names,
                   figure, saved, filtered, summarized>>

\* Extract swallowing the KeyError: a file without the metric is skipped
Extract_SkipMissing ==
    /\ pc = "extract"
    /\ IF \A i \in 1..Len(jsn) : metric_key \in DOMAIN jsn[i]
       THEN /\ to_plot' = Append(to_plot, [i \in 1..Len(jsn) |-> jsn[i][metric_key]])
            /\ vmaf_file_names' = Append(vmaf_file_names, fi)
            /\ log' = Append(log, <<"Loaded", mi, fi, "">>)
       ELSE /\ log' = Append(log, <<"MissingMetric", mi, fi, "">>)
            /\ UNCHANGED <<to_plot, vmaf_file_names>>
    /\ IF fi < Len(args_vmaf_file)
       THEN fi' = fi + 1 /\ pc' = "read"
       ELSE fi' = fi /\ pc' = IF to_plot' = <<>> THEN "exit1" ELSE "plot"
    /\ status' = IF pc' = "exit1" THEN 1 ELSE status
    /\ UNCHANGED <<args_metrics, args_vmaf_file, mi, jsn, verdict, figure, saved,
                   filtered, summarized>>

\* temp_scores = [x["metrics"][metric_key] for x in jsn["frames"]], or KeyError
Extract ==
    /\ pc = "extract"
    /\ IF \A i \in 1..Len(jsn) : metric_key \in DOMAIN jsn[i]
       THEN /\ to_plot' = Append(to_plot, [i \in 1..Len(jsn) |-> jsn[i][metric_key]])
            /\ vmaf_file_names' = Append(vmaf_file_names, fi)
            /\ log' = Append(log, <<"Loaded", mi, fi, "">>)
            /\ IF fi < Len(args_vmaf_file)
               THEN fi' = fi + 1 /\ pc' = "read"
               ELSE fi' = fi /\ pc' = "plot"
            /\ status' = status
       ELSE /\ log' = Append(log, <<"MissingMetric", mi, fi, "">>)
            /\ pc' = "exit1"
            /\ status' = 1
            /\ UNCHANGED <<to_plot, vmaf_file_names, fi>>
    /\ UNCHANGED <<args_metrics, args_vmaf_file, mi, jsn, verdict, figure, saved,
                   filtered, summarized>>

\* the outer loop's next iteration, or the end of main
NextMetric ==
    IF mi < Len(args_metrics)
    THEN /\ mi' = mi + 1
         /\ fi' = 1
         /\ to_plot' = <<>>
         /\ vmaf_file_names' = <<>>
         /\ pc' = "read"
         /\ status' = status
    ELSE /\ pc' = "exit0"
         /\ status' = 0
         /\ UNCHANGED <<mi, fi, to_plot, vmaf_file_names>>

\* plot_metric(to_plot[0], metric)
PlotMetric ==
    /\ pc = "plot"
    /\ Len(args_metrics) = 1
    /\ LET scores == filter_scores(to_plot[1])
       IN  /\ filtered' = Append(filtered, [metric |-> metric, before |-> to_plot[1],
                                            after |-> scores])
           /\ IF scores = <<>>
              THEN /\ log' = log \o << <<"Filtered", mi, 1, "">>, <<"EmptySeries", mi, 1, "">> >>
                   /\ pc' = "raised"
                   /\ status' = 1
                   /\ UNCHANGED <<mi, fi, to_plot, vmaf_file_names, figure, saved, summarized>>
              ELSE /\ summarized' = Append(summarized, [metric |-> metric, series |-> scores])
                   /\ figure' = [lines |-> << [name |-> 0, series |-> scores] >>,
                                 ylim  |-> single_ylim(scores, metric),
                                 step  |-> single_step(scores, metric)]
                   /\ saved' = Append(saved, figure')
                   /\ log' = log \o << <<"Filtered", mi, 1, "">>, <<"Summarized", mi, 1, "">>,
                                       <<"Scaled", mi, 1, "">>, <<"Rendered", mi, 1, "">> >>
                   /\ NextMetric
    /\ UNCHANGED <<args_metrics, args_vmaf_file, jsn, verdict>>

\* plot_multi_metrics(to_plot, vmaf_file_names)
PlotMultiMetrics ==
    /\ pc = "plot"
    /\ Len(args_metrics) # 1
    /\ LET done  == MultiDone(to_plot, 1)
           drawn == [k \in 1..done |-> [name |-> vmaf_file_names[k], series |-> to_plot[k]]]
       IN  /\ summarized' = summarized \o
                              [k \in 1..done |-> [metric |-> metric, series |-> to_plot[k]]]
           /\ IF done < Len(to_plot)
              THEN /\ figure' = [figure EXCEPT !.lines = figure.lines \o drawn]
                   /\ log' = log \o [k \in 1..done |-> <<"Summarized", mi, vmaf_file_names[k], "">>]
                                 \o << <<"StatisticsError", mi, vmaf_file_names[done + 1], "">> >>
                   /\ pc' = "raised"
                   /\ status' = 1
                   /\ UNCHANGED <<mi, fi, to_plot, vmaf_file_names, saved>>
              ELSE /\ figure' = [lines |-> figure.lines \o drawn,
                                 ylim  |-> multi_ylim(to_plot),
                                 step  |-> figure.step]
                   /\ saved' = Append(saved, figure')
                   /\ log' = log \o [k \in 1..done |-> <<"Summarized", mi, vmaf_file_names[k], "">>]
                                 \o << <<"Scaled", mi, 0, "">>, <<"Rendered", mi, 0, "">> >>
                   /\ NextMetric
    /\ UNCHANGED <<args_metrics, args_vmaf_file, jsn, verdict, filtered>>

Next ==
    \/ ReadJson
    \/ Validate
    \/ Extract
    \/ PlotMetric
    \/ PlotMultiMetrics

Spec == Init /\ [][Next]_vars

\* main runs to completion: a single sequential process
FairSpec == InitRuns /\ [][Next]_vars /\ WF_vars(Next)

---------------------------------------------------------------------------
(* Properties *)

Rejections == {"missing_vmaf", "suspicious_vmaf", "xpsnr_sentinel_overflow",
               "xpsnr_chroma_zero", "xpsnr_out_of_range"}

Terminal == {"exit0", "exit1", "raised"}

Stage(i) == log[i][1]

SamePair(i, j) == log[i][2] = log[j][2] /\ log[i][3] = log[j][3]

\* the verdict variable is the verdict of the file in jsn
VerdictCurrent == pc # "validate" /\ verdict # "none"

SingleXpsnrRendered ==
    Len(args_metrics) = 1 /\ args_metrics[1] = "XPSNR" /\ saved # <<>>

\* C1: once validate_metrics has rejected a file, that rejection is the last
\* thing the run did (nothing is read, validated, loaded or plotted after it),
\* the exit status is 1, and no image was ever written to the output path.
C1_RejectionStopsRun ==
    \A i \in 1..Len(log) :
        (Stage(i) = "Validated" /\ log[i][4] \in Rejections)
            => /\ i = Len(log)
               /\ pc = "exit1"
               /\ status = 1
               /\ saved = <<>>

\* C1 witness: the second file of a two-metric run is rejected.
C1_Witness ==
    /\ pc = "exit1"
    /\ verdict \in Rejections
    /\ fi = 2
    /\ Len(args_metrics) = 2

\* C2 (as claimed): a run that ends with an error has written no image, and an
\* image is written only when every (metric, file) pair has been loaded.
C2_NoPartialOutput ==
    /\ pc \in {"exit1", "raised"} => saved = <<>>
    /\ saved # <<>> =>
          \A m \in 1..Len(args_metrics) : \A f \in 1..Len(args_vmaf_file) :
              \E i \in 1..Len(log) : log[i] = <<"Loaded", m, f, "">>

\* C3: missing_vmaf exactly when the frame list is empty or a frame lacks
\* vmaf; otherwise suspicious_vmaf exactly when mean < 10 or max < 20,
\* whatever the XPSNR content; a file passing both with no xpsnr key is
\* accepted.
C3_VmafRules ==
    VerdictCurrent =>
        LET n       == Len(jsn)
            lacks   == n = 0 \/ \E i \in 1..n : "vmaf" \notin DOMAIN jsn[i]
            total   == SumSeq([i \in 1..n |-> jsn[i]["vmaf"]])
            meanLow == total < 100 * n
            maxLow  == \A i \in 1..n : jsn[i]["vmaf"] < 200
        IN  /\ lacks <=> verdict = "missing_vmaf"
            /\ ~lacks => ((meanLow \/ maxLow) <=> verdict = "suspicious_vmaf")
            /\ (~lacks /\ ~meanLow /\ ~maxLow
                  /\ \A i \in 1..n : "xpsnr" \notin DOMAIN jsn[i])
                 => verdict = "accepted"

\* C3 witness: an all-zero VMAF file that also breaks the XPSNR sentinel rule
\* is rejected as suspicious_vmaf.
C3_Witness ==
    /\ pc = "exit1"
    /\ verdict = "suspicious_vmaf"
    /\ Len(jsn) >= 2
    /\ \A i \in 1..Len(jsn) :
          /\ "vmaf" \in DOMAIN jsn[i] /\ jsn[i]["vmaf"] = 0
          /\ "xpsnr" \in DOMAIN jsn[i] /\ jsn[i]["xpsnr"] = MAX_DOUBLE

PassesVmaf(frames) ==
    /\ Len(frames) > 0
    /\ \A i \in 1..Len(frames) : "vmaf" \in DOMAIN frames[i]
    /\ SumSeq([i \in 1..Len(frames) |-> frames[i]["vmaf"]]) >= 100 * Len(frames)
    /\ \E i \in 1..Len(frames) : frames[i]["vmaf"] >= 200

CarriesXpsnr(frames) ==
    \A i \in 1..Len(frames) : {"xpsnr", "xpsnr_u", "xpsnr_v"} \subseteq DOMAIN frames[i]

InvalidFrames(frames) ==
    {i \in 1..Len(frames) : frames[i]["xpsnr"] = MAX_DOUBLE \/ frames[i]["xpsnr"] <= 0}

\* C4: a file that passes the VMAF rules and carries XPSNR in every frame is
\* rejected with xpsnr_sentinel_overflow exactly when the frames whose xpsnr
\* is the sentinel or <= 0 are strictly more than 10% of all frames.
C4_SentinelRatio ==
    (VerdictCurrent /\ PassesVmaf(jsn) /\ CarriesXpsnr(jsn)) =>
        (verdict = "xpsnr_sentinel_overflow"
            <=> 10 * Cardinality(InvalidFrames(jsn)) > Len(jsn))

\* C4 witness: 3 invalid frames of 15 are rejected.
C4_Witness ==
    /\ VerdictCurrent /\ PassesVmaf(jsn) /\ CarriesXpsnr(jsn)
    /\ Len(jsn) = 15
    /\ Cardinality(InvalidFrames(jsn)) = 3
    /\ verdict = "xpsnr_sentinel_overflow"

Dropped(s) == s = MAX_DOUBLE \/ s <= 0 \/ s >= 1000

Kept(s) == ~Dropped(s)

\* C5 (as claimed): the filter drops exactly the sentinel, <= 0 and >= 100
\* samples of a PSNR or XPSNR series and nothing of a VMAF or SSIM series.
C5_FilterByKind ==
    \A k \in 1..Len(filtered) :
        IF filtered[k].metric \in {"PSNR", "XPSNR"}
        THEN filtered[k].after = SelectSeq(filtered[k].before, Kept)
        ELSE filtered[k].after = filtered[k].before

\* C6 (as claimed): statistics are only ever computed over filtered series: no
\* summarized PSNR or XPSNR series holds a sentinel, <= 0 or >= 100 sample.
C6_StatsOnlyFiltered ==
    \A k \in 1..Len(summarized) :
        summarized[k].metric \in {"PSNR", "XPSNR"}
            => \A i \in 1..Len(summarized[k].series) : Kept(summarized[k].series[i])

Floor10(x) == x \div 10

Ceil10(x) == (x + 9) \div 10

PlannedSeries == filtered[1].after

\* C7 (as claimed): lower = max(20, floor(min) - 1), upper =
\* min(60, ceil(max) + 1), step 5 if upper - lower > 20 else 2.
C7_Original ==
    SingleXpsnrRendered =>
        LET lower == Max2(20, Floor10(MinSeq(PlannedSeries)) - 1)
            upper == Min2(60, Ceil10(MaxSeq(PlannedSeries)) + 1)
        IN  /\ saved[1].ylim = <<lower * 1000, upper * 1000>>
            /\ saved[1].step = IF upper - lower > 20 THEN 5 ELSE 2

\* C7 (amended): lower = max(20, floor(min) - 1), upper =
\* min(60, floor(max) + 1), step 5 if upper - lower > 20 else 2; a series with
\* min 30.2 and max 58.9 yields lower 29, upper 59 and step 5.
C7_Amended ==
    SingleXpsnrRendered =>
        LET lower == Max2(20, Floor10(MinSeq(PlannedSeries)) - 1)
            upper == Min2(60, Floor10(MaxSeq(PlannedSeries)) + 1)
        IN  /\ saved[1].ylim = <<lower * 1000, upper * 1000>>
            /\ saved[1].step = (IF upper - lower > 20 THEN 5 ELSE 2)
            /\ (MinSeq(PlannedSeries) = 302 /\ MaxSeq(PlannedSeries) = 589)
                  => /\ saved[1].ylim = <<29000, 59000>>
                     /\ saved[1].step = 5

\* C7 witness: a rendered XPSNR series with min 30.2 and max 58.9.
C7_Witness ==
    /\ SingleXpsnrRendered
    /\ MinSeq(PlannedSeries) = 302
    /\ MaxSeq(PlannedSeries) = 589

\* C8 (as claimed): the chart of a finished run holds one line per input
\* file's series, for every requested metric.
C8_AllSeriesRendered ==
    pc = "exit0" =>
        Len(saved[Len(saved)].lines) = Len(args_vmaf_file) * Len(args_metrics)

C9_Order ==
    /\ \A i \in 1..Len(log) : \A j \in 1..Len(log) : log[i] = log[j] => i = j
    /\ \A i \in 1..Len(log) :
          /\ Stage(i) = "Validated"
                => i > 1 /\ Stage(i - 1) = "Read" /\ SamePair(i, i - 1)
          /\ Stage(i) = "Loaded"
                => /\ i > 1 /\ Stage(i - 1) = "Validated" /\ SamePair(i, i - 1)
                   /\ log[i - 1][4] = "accepted"
          /\ Stage(i) \in {"Filtered", "Summarized", "Scaled", "Rendered"}
                => \A f \in 1..Len(args_vmaf_file) :
                      \E j \in 1..(i - 1) : log[j] = <<"Loaded", log[i][2], f, "">>
          /\ Stage(i) = "Summarized" /\ Len(args_metrics) = 1
                => Stage(i - 1) = "Filtered"
          /\ Stage(i) = "Scaled" => Stage(i - 1) = "Summarized"
          /\ Stage(i) = "Rendered" => Stage(i - 1) = "Scaled"
    /\ pc = "exit0" <=> status = 0
    /\ pc \in {"exit1", "raised"} <=> status = 1
    /\ pc = "exit0" => Stage(Len(log)) = "Rendered"

C10_WellFormedAxis ==
    SingleXpsnrRendered => saved[1].ylim[1] < saved[1].ylim[2]

=============================================================================
